---- MODULE Spec2Model ----
(***************************************************************************)
(* The /twilio-webhook handler of src/api/main.py as a state machine.      *)
(*                                                                         *)
(* A request is a coroutine.  It runs without interruption between two     *)
(* awaits, so one action is one such stretch of receive_whatsapp_message:  *)
(*   Receive    lines 50-68   resolve a numeric reply, post the auth call  *)
(*   AuthReturn lines 64-88   the auth call returns or raises; post the    *)
(*                            chat call                                    *)
(*   ChatReturn lines 76-143  the chat call returns or raises; parse,      *)
(*                            format, store the suggestions, reply         *)
(* Several requests may be in flight: the event loop runs another          *)
(* coroutine whenever one awaits.                                          *)
(*                                                                         *)
(* A string is a sequence of tokens (characters or words), so that strip,  *)
(* replace, isdigit and int are computed and not assumed.                  *)
(***************************************************************************)
EXTENDS Integers, Sequences, FiniteSets, TLC

VARIABLES
    profile,                \* which input sets this run draws from (fixed by Init)
    user_suggestion_cache,  \* line 28: sender -> list of suggestions
    req,                    \* slot -> the coroutine handling a request (pc and locals)
    returned                \* history: sender -> the suggestions that 200 responses
                            \* to its requests have carried

vars == <<profile, user_suggestion_cache, req, returned>>

\* Bounds of the model.
MaxInFlight == 2    \* requests in flight together (profile "concurrent")
MaxBodyLen == 2     \* characters of a Body (profile "bodies")
MaxLines == 2       \* lines of a chat response (profile "stream")

----------------------------------------------------------------------------
\* Strings

\* "nl" is the newline character.
Whitespace == {" ", "nl"}

\* Characters str.isdigit() accepts.  "sup2" is U+00B2 SUPERSCRIPT TWO: a digit
\* for isdigit(), not a decimal, so int() raises ValueError on it.
DecimalChars == {"0", "1", "2"}
DigitChars == DecimalChars \cup {"sup2"}

DecimalValue(c) == CASE c = "0" -> 0 [] c = "1" -> 1 [] c = "2" -> 2

RECURSIVE LStrip(_)
LStrip(s) == IF s # <<>> /\ Head(s) \in Whitespace THEN LStrip(Tail(s)) ELSE s

RECURSIVE RStrip(_)
RStrip(s) ==
    IF s # <<>> /\ s[Len(s)] \in Whitespace THEN RStrip(SubSeq(s, 1, Len(s) - 1)) ELSE s

\* str.strip()
Strip(s) == RStrip(LStrip(s))

\* str.isdigit(): non-empty and every character a digit
IsDigit(s) == s # <<>> /\ \A i \in 1..Len(s) : s[i] \in DigitChars

\* int(s) raises ValueError
IntRaises(s) == \E i \in 1..Len(s) : s[i] \notin DecimalChars

RECURSIVE ParseInt(_)
ParseInt(s) ==
    IF s = <<>> THEN 0
    ELSE 10 * ParseInt(SubSeq(s, 1, Len(s) - 1)) + DecimalValue(s[Len(s)])

\* str.replace(tok, ""), for a token.  Markdown tokens are named: "bullet" is the
\* bullet character, "star2" two asterisks, "under2" two underscores, "fence" three
\* backquotes.
RemoveToken(s, tok) == SelectSeq(s, LAMBDA t : t # tok)

SanitizeToken(t) ==
    CASE t = "bullet" -> "dash"
      [] t = "star2" -> "star"
      [] t = "under2" -> "under"
      [] OTHER -> t

sanitize_whatsapp_markdown(text) ==
    Strip([i \in 1..Len(RemoveToken(text, "fence")) |->
              SanitizeToken(RemoveToken(text, "fence")[i])])

----------------------------------------------------------------------------
\* The chat response: a stream of lines (lines 94-118)

\* A line is the tokens in front of its payload (pre) and the payload.  The
\* payload is "[DONE]" (kind "done"), a JSON object ("object"), another JSON value
\* ("nonobject") or text that is no JSON ("invalid").
\* content: a JSON string (kind "str", its text), an empty list or object
\* ("empty_container": falsy, and "in" works on it) or any other value ("other":
\* null, a number, a boolean, a non-empty list or object).
\* final: a value extend() can iterate (a list, with its items) or not.
NoContent == [kind |-> "str", text |-> <<>>]
NoFinal == [iterable |-> TRUE, items |-> <<>>]

Payload(kind, hasContent, content, hasFinal, final) ==
    [kind |-> kind, hasContent |-> hasContent, content |-> content,
     hasFinal |-> hasFinal, final |-> final]

Done == Payload("done", FALSE, NoContent, FALSE, NoFinal)
InvalidJson == Payload("invalid", FALSE, NoContent, FALSE, NoFinal)
NonObject == Payload("nonobject", FALSE, NoContent, FALSE, NoFinal)
Object(hasContent, content, hasFinal, final) ==
    Payload("object", hasContent, content, hasFinal, final)

Str(text) == [kind |-> "str", text |-> text]
Null == [kind |-> "other", text |-> <<>>]
List(items) == [iterable |-> TRUE, items |-> items]
Number == [iterable |-> FALSE, items |-> <<>>]

Line(pre, payload) == [pre |-> pre, payload |-> payload]

\* line.startswith("data: "), line 102
StartsWithData(line) == line.pre # <<>> /\ line.pre[1] = "data: "

\* line.replace("data: ", "").strip(), line 103: every "data: " of the line goes,
\* those inside the payload's strings too; what is left in front of the payload
\* makes the data neither "[DONE]" nor JSON.
StripData(payload) ==
    [payload EXCEPT
        !.content.text = RemoveToken(@, "data: "),
        !.final.items = [i \in 1..Len(@) |-> RemoveToken(@[i], "data: ")]]

DataOf(line) ==
    IF LStrip(RemoveToken(line.pre, "data: ")) = <<>>
    THEN StripData(line.payload)
    ELSE InvalidJson

\* No break at "[DONE]"
IsDoneNever(data) == FALSE

\* data == "[DONE]", line 104
IsDone(data) == data.kind = "done"

EmptyAcc == [thinking_msgs |-> <<>>, final_answer |-> <<>>, suggestions |-> <<>>]

Contains(text, tok) == \E i \in 1..Len(text) : text[i] = tok

\* lines 109-113, for a content on which they do not raise
AddContent(acc, content) ==
    IF content.kind = "str" /\ Contains(content.text, "<thinking>")
    THEN [acc EXCEPT !.thinking_msgs = Append(@,
             Strip(RemoveToken(RemoveToken(content.text, "<thinking>"), "</thinking>")))]
    ELSE IF content.kind = "str" /\ content.text # <<>>
    THEN [acc EXCEPT !.final_answer = @ \o Strip(content.text) \o <<"nl">>]
    ELSE acc

\* The body of the try, lines 107-115: the accumulators after it, and whether it
\* raised.  json() raises on text that is no JSON (107); .get raises on a value
\* that is no object (108); "in", .replace or .strip raise on a content that is
\* no string (109-113); extend raises on a final that cannot be iterated (115),
\* after the content was added.
ParseChunk(acc, data) ==
    LET content == IF data.hasContent THEN data.content ELSE NoContent IN
    IF data.kind # "object" \/ content.kind = "other"
    THEN [acc |-> acc, raised |-> TRUE]
    ELSE IF ~data.hasFinal
    THEN [acc |-> AddContent(acc, content), raised |-> FALSE]
    ELSE IF data.final.iterable
    THEN [acc |-> [AddContent(acc, content) EXCEPT !.suggestions = @ \o data.final.items],
          raised |-> FALSE]
    ELSE [acc |-> AddContent(acc, content), raised |-> TRUE]

\* "except ...: break": a chunk that raises ends the loop
ParseLineBreakOnError(acc, line) ==
    IF ~StartsWithData(line) THEN [acc |-> acc, stop |-> FALSE]
    ELSE IF IsDone(DataOf(line)) THEN [acc |-> acc, stop |-> TRUE]
    ELSE [acc |-> ParseChunk(acc, DataOf(line)).acc,
          stop |-> ParseChunk(acc, DataOf(line)).raised]

\* One turn of the for loop, lines 101-118: the accumulators after it, and
\* whether the loop breaks.  "except ... continue" keeps what the try had added.
ParseLine(acc, line) ==
    IF ~StartsWithData(line) THEN [acc |-> acc, stop |-> FALSE]
    ELSE IF IsDone(DataOf(line)) THEN [acc |-> acc, stop |-> TRUE]
    ELSE [acc |-> ParseChunk(acc, DataOf(line)).acc, stop |-> FALSE]

\* The for loop from line i of decoded.splitlines()
RECURSIVE ParseFrom(_, _, _)
ParseFrom(acc, lines, i) ==
    IF i > Len(lines) THEN acc
    ELSE IF ParseLine(acc, lines[i]).stop THEN acc
    ELSE ParseFrom(ParseLine(acc, lines[i]).acc, lines, i + 1)

\* lines 97-118
ParseStream(lines) == ParseFrom(EmptyAcc, lines, 1)

----------------------------------------------------------------------------
\* The reply (lines 120-138, 92, 143)

\* A reply is the list of its parts; "\n\n".join(parts) is the text sent.
Part(tag, num, text) == [tag |-> tag, num |-> num, text |-> text]

GenericError == <<Part("text", 0, <<"Sorry, something went wrong on our side.">>)>>
AgentError == <<Part("text", 0, <<"Something went wrong with the agent response.">>)>>

ThinkingParts(acc) ==
    IF acc.thinking_msgs # <<>>
    THEN <<Part("header", 0, <<"Thinking">>)>> \o
         [i \in 1..Len(acc.thinking_msgs) |->
             Part("thinking", 0, sanitize_whatsapp_markdown(acc.thinking_msgs[i]))]
    ELSE <<>>

AnswerParts(acc) ==
    IF acc.final_answer # <<>>
    THEN <<Part("header", 0, <<"Aurora Agent Answer">>),
           Part("answer", 0, sanitize_whatsapp_markdown(acc.final_answer))>>
    ELSE <<>>

\* f"{i}. {q}" for i, q in enumerate(suggestions, 1)
SuggestionParts(acc) ==
    IF acc.suggestions # <<>>
    THEN <<Part("header", 0, <<"Suggested Questions:">>)>> \o
         [i \in 1..Len(acc.suggestions) |-> Part("suggestion", i, acc.suggestions[i])]
    ELSE <<>>

FormatReply(acc) == ThinkingParts(acc) \o AnswerParts(acc) \o SuggestionParts(acc)

----------------------------------------------------------------------------
\* What a run draws its inputs from

Q1 == <<"q1">>
Q2 == <<"q2">>
Q3 == <<"q3">>

Data == <<"data: ">>

\* Lines of a chat response.
DoneLine == Line(Data, Done)
DoneTwicePrefixed == Line(<<"data: ", "data: ", " ">>, Done)
BareDone == Line(<<>>, Done)
AnswerLine == Line(Data, Object(TRUE, Str(<<" ", "see", "data: ", "star2">>), FALSE, NoFinal))
ThinkingLine ==
    Line(Data, Object(TRUE, Str(<<"<thinking>", "plan", " ", "</thinking>">>), FALSE, NoFinal))
FinalLine == Line(Data, Object(FALSE, NoContent, TRUE, List(<<Q1, Q2>>)))
AnswerFinalLine == Line(Data, Object(TRUE, Str(<<"hi">>), TRUE, List(<<Q3>>)))
BareAnswerFinalLine == Line(<<>>, Object(TRUE, Str(<<"no">>), TRUE, List(<<Q2>>)))
EventLine == Line(<<"event: ", "data: ">>, Object(TRUE, Str(<<"no">>), TRUE, List(<<Q2>>)))
InvalidLine == Line(Data, InvalidJson)
GarbageLine == Line(<<"data: ", "x">>, Object(TRUE, Str(<<"no">>), TRUE, List(<<Q2>>)))
NonObjectLine == Line(Data, NonObject)
BadContentLine == Line(Data, Object(TRUE, Null, TRUE, List(<<Q2>>)))
BadFinalLine == Line(Data, Object(TRUE, Str(<<"ok">>), TRUE, Number))
BadFinalThinkingLine ==
    Line(Data, Object(TRUE, Str(<<"<thinking>", "hm", "</thinking>">>), TRUE, Number))

AllLines ==
    {DoneLine, DoneTwicePrefixed, BareDone, AnswerLine, ThinkingLine, FinalLine,
     AnswerFinalLine, BareAnswerFinalLine, EventLine, InvalidLine, GarbageLine,
     NonObjectLine, BadContentLine, BadFinalLine, BadFinalThinkingLine}

SeqsUpTo(S, n) == UNION {[1..k -> S] : k \in 0..n}

SmallStreams == {<<FinalLine, DoneLine>>, <<AnswerFinalLine>>, <<AnswerLine>>}

Streams(p) == IF p = "stream" THEN SeqsUpTo(AllLines, MaxLines) ELSE SmallStreams

Chars == DigitChars \cup {" ", "a"}

Bodies(p) ==
    CASE p = "bodies" -> SeqsUpTo(Chars, MaxBodyLen) \ {<<>>}
      [] p = "stream" -> {<<"1">>, <<"a">>}
      [] OTHER -> {<<"1">>, <<"a">>}

Senders(p) == IF p = "stream" THEN {"A"} ELSE {"A", "B"}

Slots(p) == IF p = "concurrent" THEN 1..MaxInFlight ELSE {1}

\* The auth call's outcome: it raised (no connection, a timeout), or a response
\* with a status and a body; json: the body is a JSON object; hasToken: it has
\* an "access_token" that is not null.
AuthResponse(raised, status, json, hasToken, access_token) ==
    [raised |-> raised, status |-> status, json |-> json, hasToken |-> hasToken,
     access_token |-> access_token]

NoAuth == AuthResponse(FALSE, 0, FALSE, FALSE, "")
AuthRaised == AuthResponse(TRUE, 0, FALSE, FALSE, "")
AuthToken(t) == AuthResponse(FALSE, 200, TRUE, TRUE, t)

AuthResponses(p) ==
    IF p = "bodies"
    THEN {AuthRaised, AuthResponse(FALSE, 401, TRUE, FALSE, ""),
          AuthResponse(FALSE, 200, FALSE, FALSE, ""),
          AuthResponse(FALSE, 200, TRUE, FALSE, ""),
          AuthToken(""), AuthToken("t1"), AuthToken("t2")}
    ELSE {AuthRaised, AuthToken("t1")}

\* The chat call's outcome: it raised (no connection, the 30 s timeout), or a
\* response with a status and a body that decodes to lines or does not decode.
ChatResponse(raised, status, decodable, lines) ==
    [raised |-> raised, status |-> status, decodable |-> decodable, lines |-> lines]

NoChat == ChatResponse(FALSE, 0, FALSE, <<>>)
ChatRaised == ChatResponse(TRUE, 0, FALSE, <<>>)
ChatOk(lines) == ChatResponse(FALSE, 200, TRUE, lines)

ChatResponses(p) ==
    {ChatOk(lines) : lines \in Streams(p)} \cup
    (IF p = "bodies"
     THEN {ChatRaised, ChatResponse(FALSE, 500, TRUE, <<AnswerFinalLine>>),
           ChatResponse(FALSE, 204, TRUE, <<>>), ChatResponse(FALSE, 200, FALSE, <<>>)}
     ELSE {ChatResponse(FALSE, 500, TRUE, <<AnswerFinalLine>>)})

----------------------------------------------------------------------------
\* The handler (lines 44-143)

\* None, for the local suggestions of line 54
NoSuggestions == [has |-> FALSE, list |-> <<>>]
NoSent == [query |-> <<>>, token |-> ""]

\* A slot with no request in it.  BodyIn is the Body received and Body the local
\* that line 58 may reassign; sent is the chat request posted; auth and chat are
\* the responses received; authCalls and chatCalls count the calls posted.
Idle ==
    [pc |-> "idle", From |-> "", BodyIn |-> <<>>, Body |-> <<>>,
     auth |-> NoAuth, token |-> "", sent |-> NoSent,
     chat |-> NoChat, reply |-> <<>>, authCalls |-> 0, chatCalls |-> 0]

InFlight(rq) == rq.pc \in {"auth", "chat"}

\* A lookup that forgets the key: any entry of the cache.
CacheGetAny(cache, From) ==
    IF DOMAIN cache # {}
    THEN [has |-> TRUE, list |-> cache[CHOOSE s \in DOMAIN cache : s # From \/ DOMAIN cache = {From}]]
    ELSE NoSuggestions

\* user_suggestion_cache.get(From), line 54: None when From has no entry
CacheGet(cache, From) ==
    IF From \in DOMAIN cache THEN [has |-> TRUE, list |-> cache[From]] ELSE NoSuggestions

\* A store that rebinds the cache: user_suggestion_cache = {From: suggestions}
CacheStoreOnly(cache, From, suggestions) == [s \in {From} |-> suggestions]

\* user_suggestion_cache[From] = suggestions, line 135
CacheStore(cache, From, suggestions) ==
    [s \in DOMAIN cache \cup {From} |-> IF s = From THEN suggestions ELSE cache[s]]

\* A store with no "if suggestions:" in front
ShouldStoreAlways(suggestions) == TRUE

\* "if suggestions:", line 131
ShouldStore(suggestions) == suggestions # <<>>

\* Body.strip().isdigit() and suggestions, line 55
IsSelection(Body, suggestions) ==
    IsDigit(Strip(Body)) /\ suggestions.has /\ suggestions.list # <<>>

\* int(Body.strip()), the "- 1" forgotten
SuggestionIndexFromOne(Body) == ParseInt(Strip(Body))

\* int(Body.strip()) - 1, line 56
SuggestionIndex(Body) == ParseInt(Strip(Body)) - 1

\* lines 57-58: the local Body after them (suggestions[index] counts from 0)
Resolve(Body, suggestions) ==
    IF IsSelection(Body, suggestions)
       /\ 0 <= SuggestionIndex(Body) /\ SuggestionIndex(Body) < Len(suggestions.list)
    THEN suggestions.list[SuggestionIndex(Body) + 1]
    ELSE Body

\* raise_for_status(), line 69
IsSuccess(status) == status \in 200..299

\* "if token is None"
TokenIsNone(auth) == ~auth.hasToken

\* "if not token", line 71: None or the empty string
TokenMissing(auth) == ~auth.hasToken \/ auth.access_token = ""

\* an exception between lines 64 and 72
AuthFails(auth) ==
    auth.raised \/ ~IsSuccess(auth.status) \/ ~auth.json \/ TokenMissing(auth)

\* response.status_code >= 400
AgentFailedOnErrorStatus(status) == status >= 400

\* response.status_code != 200, line 90
AgentFailed(status) == status # 200

\* return PlainTextResponse(...): the coroutine ends and its locals with it
Return(rq, text) ==
    [rq EXCEPT !.pc = "done", !.reply = text, !.BodyIn = <<>>, !.Body = <<>>,
               !.token = "", !.sent = NoSent]

\* lines 50-68.  int() raises outside the try (line 56): the exception leaves the
\* handler, which sends no reply of its own.
Receive(r) ==
    /\ ~InFlight(req[r])
    /\ \A q \in Slots(profile) : q < r => InFlight(req[q])
    /\ \E From \in Senders(profile), Body \in Bodies(profile) :
         LET suggestions == CacheGet(user_suggestion_cache, From) IN
         IF IsSelection(Body, suggestions) /\ IntRaises(Strip(Body))
         THEN req' = [req EXCEPT ![r] =
                  [Idle EXCEPT !.pc = "crashed", !.From = From, !.BodyIn = Body]]
         ELSE req' = [req EXCEPT ![r] =
                  [Idle EXCEPT !.pc = "auth", !.From = From, !.BodyIn = Body,
                               !.Body = Resolve(Body, suggestions),
                               !.authCalls = 1]]
    /\ UNCHANGED <<profile, user_suggestion_cache, returned>>

\* lines 64-88: the auth call ends; on success the chat call is posted with the
\* token and the local Body
AuthReturn(r) ==
    /\ req[r].pc = "auth"
    /\ \E auth \in AuthResponses(profile) :
         IF AuthFails(auth)
         THEN req' = [req EXCEPT ![r] = Return([@ EXCEPT !.auth = auth], GenericError)]
         ELSE req' = [req EXCEPT ![r] =
                  [@ EXCEPT !.pc = "chat", !.auth = auth, !.token = auth.access_token,
                            !.sent = [query |-> req[r].Body, token |-> auth.access_token],
                            !.chatCalls = @ + 1]]
    /\ UNCHANGED <<profile, user_suggestion_cache, returned>>

\* lines 76-143: the chat call ends; the response is parsed, formatted, its
\* suggestions stored, and the reply returned.  The awaits in between (closing
\* the client, aread() of a body client.post has read) touch nothing shared and
\* line 135 is the stretch's one access to the cache, so it is one step; an
\* exception of theirs is that of a body that does not decode.
ChatReturn(r) ==
    /\ req[r].pc = "chat"
    /\ \E chat \in ChatResponses(profile) :
         LET rq == [req[r] EXCEPT !.chat = chat]
             acc == ParseStream(chat.lines)
         IN
         IF chat.raised
         THEN /\ req' = [req EXCEPT ![r] = Return(rq, GenericError)]
              /\ UNCHANGED <<user_suggestion_cache, returned>>
         ELSE IF AgentFailed(chat.status)
         THEN /\ req' = [req EXCEPT ![r] = Return(rq, AgentError)]
              /\ UNCHANGED <<user_suggestion_cache, returned>>
         ELSE IF ~chat.decodable
         THEN /\ req' = [req EXCEPT ![r] = Return(rq, GenericError)]
              /\ UNCHANGED <<user_suggestion_cache, returned>>
         ELSE /\ req' = [req EXCEPT ![r] = Return(rq, FormatReply(acc))]
              /\ user_suggestion_cache' =
                    IF ShouldStore(acc.suggestions)
                    THEN CacheStore(user_suggestion_cache, rq.From, acc.suggestions)
                    ELSE user_suggestion_cache
              /\ returned' = [returned EXCEPT ![rq.From] =
                    @ \cup {acc.suggestions[i] : i \in 1..Len(acc.suggestions)}]
    /\ UNCHANGED profile

InitFor(p) ==
    /\ profile = p
    /\ user_suggestion_cache = [s \in {} |-> <<>>]
    /\ req = [r \in Slots(p) |-> Idle]
    /\ returned = [s \in Senders(p) |-> {}]

Init == InitFor("concurrent")
InitBodies == InitFor("bodies")
InitStream == InitFor("stream")

Next ==
    \/ \E r \in Slots(profile) : Receive(r)
    \/ \E r \in Slots(profile) : AuthReturn(r)
    \/ \E r \in Slots(profile) : ChatReturn(r)

\* Requests in flight together, few inputs.
Spec == Init /\ [][Next]_vars
\* One request at a time, every Body and every auth and chat outcome.
SpecBodies == InitBodies /\ [][Next]_vars
\* One request at a time, every chat response of up to MaxLines lines.
SpecStream == InitStream /\ [][Next]_vars

----------------------------------------------------------------------------
\* Properties.  Each is stated in its own terms, on what a request received and
\* what it sent, not with the handler's operators.

\* the step in which slot r receives a request and posts its auth call
Received(r) == ~InFlight(req[r]) /\ req'[r].pc = "auth"
\* the step in which slot r posts its chat call
Forwarded(r) == req[r].pc = "auth" /\ req'[r].pc = "chat"
\* the step in which slot r's request ends with a reply
Replied(r) == InFlight(req[r]) /\ req'[r].pc = "done"

\* A 200 response whose body decoded: the handler parsed it.
Parsed(rq) == rq.pc = "done" /\ rq.chatCalls = 1 /\ ~rq.chat.raised
              /\ rq.chat.status = 200 /\ rq.chat.decodable

\* The trimmed Body is a number: decimal digits only.
IsNumber(body) ==
    Strip(body) # <<>> /\ \A i \in 1..Len(Strip(body)) : Strip(body)[i] \in DecimalChars

RECURSIVE ValueOf(_)
ValueOf(digits) ==
    IF digits = <<>> THEN 0
    ELSE DecimalValue(Head(digits)) * (10 ^ (Len(digits) - 1)) + ValueOf(Tail(digits))

\* The query the claim C1 asks for.
QueryFor(body, From, cache) ==
    IF IsNumber(body) /\ From \in DOMAIN cache
       /\ 1 <= ValueOf(Strip(body)) /\ ValueOf(Strip(body)) <= Len(cache[From])
    THEN cache[From][ValueOf(Strip(body))]
    ELSE body

\* The numbered suggestion lines of a reply.
Shown(reply) == SelectSeq(reply, LAMBDA part : part.tag = "suggestion")

\* Reply shows list as its lines "1. ...", "2. ...", in this order.
ShowsNumbered(reply, list) ==
    /\ Len(Shown(reply)) = Len(list)
    /\ \A k \in 1..Len(list) : Shown(reply)[k].num = k /\ Shown(reply)[k].text = list[k]

EntryChanged(s) ==
    \/ (s \in DOMAIN user_suggestion_cache) # (s \in DOMAIN user_suggestion_cache')
    \/ /\ s \in DOMAIN user_suggestion_cache
       /\ s \in DOMAIN user_suggestion_cache'
       /\ user_suggestion_cache[s] # user_suggestion_cache'[s]

\* C1: the query forwarded is the suggestion number k of the sender's cached list
\* when the trimmed Body is a number k within the list, and the Body as received
\* in every other case; and the list a reply stores is the list it shows,
\* numbered from 1.
C1_Step ==
    /\ \A r \in DOMAIN req :
         /\ Received(r) =>
              req'[r].Body = QueryFor(req'[r].BodyIn, req'[r].From, user_suggestion_cache)
         /\ Forwarded(r) => req'[r].sent.query = req[r].Body
         /\ Replied(r) /\ Shown(req'[r].reply) # <<>> =>
              /\ req[r].From \in DOMAIN user_suggestion_cache'
              /\ ShowsNumbered(req'[r].reply, user_suggestion_cache'[req[r].From])
    /\ \A s \in DOMAIN user_suggestion_cache' :
         EntryChanged(s) =>
           \E r \in DOMAIN req :
              Replied(r) /\ req[r].From = s
              /\ ShowsNumbered(req'[r].reply, user_suggestion_cache'[s])

C1_QueryIsSelectedSuggestion == [][C1_Step]_vars

C1_Witness ==
    \E r \in DOMAIN req :
       /\ req[r].pc = "chat"
       /\ req[r].BodyIn = <<" ", "2">>
       /\ req[r].sent.query = Q2
       /\ req[r].From \in DOMAIN user_suggestion_cache
       /\ user_suggestion_cache[req[r].From] = <<Q1, Q2>>

\* A step of the request failed.
AuthFailed(rq) ==
    rq.auth.raised \/ rq.auth.status \notin 200..299 \/ ~rq.auth.json
    \/ ~rq.auth.hasToken \/ rq.auth.access_token = ""

ChatRaisedOrUndecodable(rq) ==
    rq.chatCalls = 1 /\ (rq.chat.raised \/ (rq.chat.status = 200 /\ ~rq.chat.decodable))

ChatStatusFailed(rq) == rq.chatCalls = 1 /\ ~rq.chat.raised /\ rq.chat.status # 200

SomeStepFailed(rq) ==
    rq.pc = "crashed"
    \/ (rq.pc = "done" /\ (AuthFailed(rq) \/ ChatRaisedOrUndecodable(rq) \/ ChatStatusFailed(rq)))

\* C2 as stated: whichever step fails, the request ends with the one generic
\* error reply.
C2_AllFailuresOneReply ==
    \A r \in DOMAIN req :
       SomeStepFailed(req[r]) => req[r].pc = "done" /\ req[r].reply = GenericError

\* C2 as amended: a failure of the auth call, its status, its body or its token,
\* of the chat call, or of decoding the chat body ends with the generic reply; a
\* non-200 chat status ends with the agent-error reply; a request that ends with
\* neither was parsed and formatted; and a failure to resolve a numeric reply
\* (int() on a digit that is no decimal) ends the request with no reply.
C2_FailureReplies ==
    \A r \in DOMAIN req :
       /\ req[r].pc = "done" =>
            IF AuthFailed(req[r]) \/ ChatRaisedOrUndecodable(req[r])
            THEN req[r].reply = GenericError
            ELSE IF ChatStatusFailed(req[r])
            THEN req[r].reply = AgentError
            ELSE Parsed(req[r]) /\ req[r].reply \notin {GenericError, AgentError}
       /\ req[r].pc = "crashed" =>
            /\ req[r].reply = <<>>
            /\ req[r].authCalls = 0
            /\ \E i \in 1..Len(req[r].BodyIn) : req[r].BodyIn[i] \in DigitChars \ DecimalChars

C2_Witness ==
    \E r \in DOMAIN req :
       /\ req[r].pc = "done"
       /\ req[r].chat.status = 204
       /\ req[r].reply = AgentError

\* C3: no request leaves the handler without a reply of the handler's own.
C3_EveryRequestReplies == \A r \in DOMAIN req : req[r].pc # "crashed"

\* C4: at most one auth call and one chat call per request; the chat call is
\* posted only after the auth call returned a success status with a non-empty
\* access_token, and carries that token; after a failed auth call, none is posted.
C4_AuthThenChat ==
    \A r \in DOMAIN req :
       /\ req[r].authCalls <= 1
       /\ req[r].chatCalls <= req[r].authCalls
       /\ req[r].chatCalls = 1 =>
            /\ ~AuthFailed(req[r])
            /\ req[r].pc = "chat" => req[r].sent.token = req[r].auth.access_token
       /\ req[r].pc = "done" /\ AuthFailed(req[r]) => req[r].chatCalls = 0
       /\ req[r].pc = "auth" => req[r].authCalls = 1 /\ req[r].chatCalls = 0

C4_Witness ==
    \E r \in DOMAIN req :
       /\ req[r].pc = "chat"
       /\ req[r].auth.access_token = "t2"
       /\ req[r].sent.token = "t2"

\* The suggestions a parsed response carried, as its reply lists them.
Carried(rq) == [k \in 1..Len(Shown(rq.reply)) |-> Shown(rq.reply)[k].text]

\* C5: the cached senders never shrink, and every entry is a non-empty list:
\* the full suggestion list of a parsed response to a request of that sender.
C5_Step ==
    /\ DOMAIN user_suggestion_cache \subseteq DOMAIN user_suggestion_cache'
    /\ \A s \in DOMAIN user_suggestion_cache' :
         /\ user_suggestion_cache'[s] # <<>>
         /\ EntryChanged(s) =>
              \E r \in DOMAIN req :
                 /\ Replied(r) /\ req[r].From = s /\ Parsed(req'[r])
                 /\ user_suggestion_cache'[s] = Carried(req'[r])

C5_NoEviction == [][C5_Step]_vars

C5_Witness ==
    /\ DOMAIN user_suggestion_cache = {"A", "B"}
    /\ \E r \in DOMAIN req :
          req[r].pc = "done" /\ req[r].From = "A" /\ Parsed(req[r]) /\ req[r].reply # <<>>
          /\ Shown(req[r].reply) = <<>>

\* C6: a request changes no cache entry but its own sender's, and that only when
\* its chat response had status 200 and carried a suggestion; a request that ends
\* with an error reply, a non-200 status or no suggestion changes nothing.
C6_Step ==
    /\ \A s \in DOMAIN user_suggestion_cache \cup DOMAIN user_suggestion_cache' :
         EntryChanged(s) =>
           \E r \in DOMAIN req :
              /\ Replied(r) /\ req[r].From = s
              /\ Parsed(req'[r]) /\ Shown(req'[r].reply) # <<>>
    /\ \A r \in DOMAIN req :
         Replied(r) /\ (~Parsed(req'[r]) \/ Shown(req'[r].reply) = <<>>) =>
           user_suggestion_cache' = user_suggestion_cache
    /\ (\A r \in DOMAIN req : ~Replied(r)) => user_suggestion_cache' = user_suggestion_cache

C6_OnlyOwnEntry == [][C6_Step]_vars

C6_Witness ==
    /\ DOMAIN user_suggestion_cache = {"A", "B"}
    /\ user_suggestion_cache["A"] = <<Q1, Q2>>
    /\ user_suggestion_cache["B"] = <<Q3>>
    /\ \E r \in DOMAIN req :
          req[r].pc = "done" /\ req[r].From = "A" /\ req[r].reply = AgentError

\* C7: requests are handled one at a time.  When a request stores its
\* suggestions, no other request's store has come between its read of the cache
\* and this store: the query it forwarded is the one the cache holds for its Body
\* now (it is as if the request were handled after the others that stored), or its
\* store leaves the entry as it was (as if those were handled after it).
C7_Step ==
    \A r \in DOMAIN req :
       Replied(r) /\ EntryChanged(req[r].From) =>
         req[r].Body = QueryFor(req[r].BodyIn, req[r].From, user_suggestion_cache)

C7_OneAtATime == [][C7_Step]_vars

\* The lines the claim C8 lets contribute: those before the first "data: [DONE]"
\* line that start with "data: ".
RECURSIVE BeforeDone(_)
BeforeDone(lines) ==
    IF lines = <<>> \/ Head(lines) = DoneLine THEN <<>>
    ELSE <<Head(lines)>> \o BeforeDone(Tail(lines))

Contributing(lines) ==
    SelectSeq(BeforeDone(lines), LAMBDA line : line.pre # <<>> /\ line.pre[1] = "data: ")

\* C8: the reply and the cache are those of the contributing lines alone: no line
\* at or after the first "data: [DONE]" line and no line without the "data: "
\* prefix adds to them.
C8_OnlyDataLinesBeforeDone ==
    \A r \in DOMAIN req :
       Parsed(req[r]) =>
         /\ req[r].reply = FormatReply(ParseStream(Contributing(req[r].chat.lines)))
         /\ Shown(req[r].reply) # <<>> =>
              /\ req[r].From \in DOMAIN user_suggestion_cache
              /\ user_suggestion_cache[req[r].From]
                   = ParseStream(Contributing(req[r].chat.lines)).suggestions

C8_Witness ==
    \E r \in DOMAIN req :
       /\ Parsed(req[r])
       /\ req[r].chat.lines = <<DoneLine, AnswerFinalLine>>
       /\ req[r].reply = <<>>
       /\ DOMAIN user_suggestion_cache = {}

\* A data line whose processing raises: its data is no JSON, no object, or an
\* object with a content or a final of the wrong kind.
Malformed(data) ==
    \/ data.kind \in {"invalid", "nonobject"}
    \/ data.kind = "object" /\ data.hasContent /\ data.content.kind = "other"
    \/ data.kind = "object" /\ data.hasFinal /\ ~data.final.iterable

Raising(line) ==
    /\ line.pre # <<>> /\ line.pre[1] = "data: "
    /\ Malformed(DataOf(line))

\* ... and whose content was added before the final raised
ContentSurvives(line) ==
    /\ DataOf(line).kind = "object"
    /\ ~(DataOf(line).hasContent /\ DataOf(line).content.kind = "other")

Without(lines, i) == SubSeq(lines, 1, i - 1) \o SubSeq(lines, i + 1, Len(lines))

WithoutFinal(line) == [line EXCEPT !.payload.hasFinal = FALSE, !.payload.final = NoFinal]

Survivor(lines, i) ==
    IF ContentSurvives(lines[i])
    THEN [lines EXCEPT ![i] = WithoutFinal(@)]
    ELSE Without(lines, i)

\* C9 as stated: a line that raises is skipped as a whole: the reply is that of
\* the stream without the line, and is no error reply.
C9_RaisingLineSkippedWhole ==
    \A r \in DOMAIN req :
       Parsed(req[r]) =>
         \A i \in 1..Len(req[r].chat.lines) :
            Raising(req[r].chat.lines[i]) =>
              /\ req[r].reply = FormatReply(ParseStream(Without(req[r].chat.lines, i)))
              /\ req[r].reply # GenericError

\* C9 as amended: a line that raises adds no suggestion and ends neither the loop
\* nor the request: the lines after it are processed.  It adds nothing at all,
\* unless what raised is its final: then its content, added before, stays.
C9_RaisingLineKeepsContent ==
    \A r \in DOMAIN req :
       Parsed(req[r]) =>
         \A i \in 1..Len(req[r].chat.lines) :
            Raising(req[r].chat.lines[i]) =>
              /\ req[r].reply = FormatReply(ParseStream(Survivor(req[r].chat.lines, i)))
              /\ req[r].reply # GenericError

C9_Witness ==
    \E r \in DOMAIN req :
       /\ Parsed(req[r])
       /\ req[r].chat.lines = <<BadFinalLine, FinalLine>>
       /\ req[r].reply =
            <<Part("header", 0, <<"Aurora Agent Answer">>), Part("answer", 0, <<"ok">>),
              Part("header", 0, <<"Suggested Questions:">>),
              Part("suggestion", 1, Q1), Part("suggestion", 2, Q2)>>

\* C10: the query of a request in flight is its Body as received or a suggestion
\* that a response to its own sender carried, never one that only another
\* sender's responses carried.
C10_SenderIsolation ==
    \A r \in DOMAIN req :
       InFlight(req[r]) =>
         /\ req[r].Body = req[r].BodyIn \/ req[r].Body \in returned[req[r].From]
         /\ req[r].pc = "chat" => req[r].sent.query = req[r].Body

C10_Witness ==
    \E r \in DOMAIN req :
       /\ req[r].pc = "chat" /\ req[r].From = "A"
       /\ req[r].BodyIn = <<"1">> /\ req[r].sent.query = Q1
       /\ "B" \in DOMAIN user_suggestion_cache
       /\ user_suggestion_cache["B"] = <<Q3>>
       /\ Q3 \notin returned["A"]
       /\ \E q \in DOMAIN req : q # r /\ InFlight(req[q]) /\ req[q].From = "B"

====
